---- MODULE Spec2Model ----
(***************************************************************************)
(* Rctrl::EventEmitter<EventType, Event> (src/include/EventEmitter.h):     *)
(* a listener multimap, an id counter and one mutex, used by several       *)
(* threads through addListener, removeListener and emit.                   *)
(***************************************************************************)
EXTENDS Integers, Sequences, FiniteSets, TLC

\* ------------------------------------------------------------------ bounds
\* Total number of top-level calls (addListener, removeListener, emit).
MaxOps == 3
\* Total number of addListener calls (top-level and from callbacks).
MaxAdds == 2
\* Width in bits of ListenerID / int in the model (32 in the build).
IdBits == 3

\* Two threads use one emitter; events have one of two types, compared with <.
Threads == {1, 2}
EventTypes == {1, 2}
IdMod == 2^IdBits
ListenerIDs == 0..(IdMod - 1)

\* The mutex is held by a thread, or by no thread.
NoThread == 0

\* ------------------------------------------------------- callbacks (user code)
\* A CallbackFunction: "empty" is a std::function with no target, "callable"
\* one with a target. What a callable does when it is invoked (return, throw,
\* call addListener or removeListener on the emitter) is up to user code and
\* is chosen at each invocation. uid is the identity of the callable object
\* handed to addListener.
CallbackKinds == {"empty", "callable"}
NoCallback == [kind |-> "none", uid |-> 0]

\* ---------------------------------------------------------- integer conversions
\* unsigned int -> int (int listenerID = lastListenerID++).
ToInt(u) == IF u >= IdMod \div 2 THEN u - IdMod ELSE u
\* int -> unsigned int (return listenerID; it->second.id == id).
ToUnsigned(i) == i % IdMod

\* ------------------------------------------------------------- the multimap
\* listeners is a sequence of <key, Listener> pairs ordered by key; pairs with
\* equal keys stay in insertion order.
\* First index whose key is not less than k (Len + 1 if none).
RECURSIVE LowerBoundFrom(_, _, _)
LowerBoundFrom(m, k, i) ==
    IF i > Len(m) THEN i
    ELSE IF m[i].first < k THEN LowerBoundFrom(m, k, i + 1) ELSE i
LowerBound(m, k) == LowerBoundFrom(m, k, 1)

\* First index whose key is greater than k (Len + 1 if none).
RECURSIVE UpperBoundFrom(_, _, _)
UpperBoundFrom(m, k, i) ==
    IF i > Len(m) THEN i
    ELSE IF k < m[i].first THEN i ELSE UpperBoundFrom(m, k, i + 1)
UpperBound(m, k) == UpperBoundFrom(m, k, 1)

\* (mutant) the pair is inserted at the lower bound of the key: before the
\* pairs with an equal key.
EmplaceAtLowerBound(m, k, listener) ==
    LET p == LowerBound(m, k)
    IN  SubSeq(m, 1, p - 1) \o <<[first |-> k, second |-> listener]>>
            \o SubSeq(m, p, Len(m))

\* listeners.emplace(eventType, listener): insert at the upper bound of the key.
Emplace(m, k, listener) ==
    LET p == UpperBound(m, k)
    IN  SubSeq(m, 1, p - 1) \o <<[first |-> k, second |-> listener]>>
            \o SubSeq(m, p, Len(m))

\* (mutant) every listener is copied, whatever its key.
EqualRangeWholeMap(m, k) == m

\* listeners.equal_range(eventType) copied into matchingListeners.
EqualRange(m, k) == SubSeq(m, LowerBound(m, k), UpperBound(m, k) - 1)

\* (mutant) the loop compares the pair's key, not the listener's id, with id.
RECURSIVE EraseMatchingByKey(_, _)
EraseMatchingByKey(m, id) ==
    IF m = << >> THEN << >>
    ELSE IF Head(m).first = id
         THEN EraseMatchingByKey(Tail(m), id)
         ELSE <<Head(m)>> \o EraseMatchingByKey(Tail(m), id)

\* The loop of removeListener: erase every pair whose id equals id.
RECURSIVE EraseMatching(_, _)
EraseMatching(m, id) ==
    IF m = << >> THEN << >>
    ELSE IF ToUnsigned(Head(m).second.id) = id
         THEN EraseMatching(Tail(m), id)
         ELSE <<Head(m)>> \o EraseMatching(Tail(m), id)

\* --------------------------------------------------------------------- state
VARIABLES
    listeners,       \* std::multimap<EventType, Listener>
    lastListenerID,  \* ListenerID counter
    listenersMutex,  \* thread holding the mutex, or NoThread
    mutf,            \* per thread: frame of its addListener / removeListener call
    emitf,           \* per thread: frame of its emit call
    outcome,         \* per thread: how its last call ended
    invoked,         \* per thread: callables invoked by its current/last emit
    emitObs,         \* per thread: observations of its current/last emit
    owned,           \* per thread: registrations it made and has not removed
    history,         \* observations of the run (not program state)
    nextUid,         \* identity of the next callable handed to addListener
    calls            \* number of top-level calls made

vars == <<listeners, lastListenerID, listenersMutex, mutf, emitf, outcome,
          invoked, emitObs, owned, history, nextUid, calls>>

IdleMut == [pc |-> "none", eventType |-> 0, callback |-> NoCallback,
            id |-> 0, tmp |-> 0]
IdleEmit == [pc |-> "none", eventType |-> 0, matchingListeners |-> << >>,
             idx |-> 0]

\* No ListenerID at all (a history value only).
NoId == 0 - 1

\* emitObs[t]:
\*   cat         the emit's event type
\*   regAtSnap   uids of the entries the map held for the emit's event type
\*               when the emit copied its matching listeners
\*   goneAtCall  history.gone when the emit was called
\*   snapped     whether the emit has copied its matching listeners
\*   threw       whether a callback invoked by the emit has thrown
\*   stale       whether the emit has invoked a listener for whose id a
\*               removeListener call had already returned
NoObs == [cat |-> 0, regAtSnap |-> {}, goneAtCall |-> {}, snapped |-> FALSE,
          threw |-> FALSE, stale |-> FALSE]

\* history:
\*   inserted   the <uid, id, cat, seq> of every entry ever emplaced, seq
\*              counting the insertions in their order (each by an
\*              addListener call that then returned id)
\*   gone       uids whose id was passed to a removeListener that returned
\*              after they were emplaced
\*   lastErase  the id of the latest removeListener scan, while no entry has
\*              been emplaced since (NoId otherwise)
\*   repeated   whether that scan came right after another scan for the same id
Init ==
    /\ listeners = << >>
    /\ lastListenerID = 0
    /\ listenersMutex = NoThread
    /\ mutf = [t \in Threads |-> IdleMut]
    /\ emitf = [t \in Threads |-> IdleEmit]
    /\ outcome = [t \in Threads |-> "none"]
    /\ invoked = [t \in Threads |-> << >>]
    /\ emitObs = [t \in Threads |-> NoObs]
    /\ owned = [t \in Threads |-> {}]
    /\ history = [inserted |-> {}, gone |-> {}, lastErase |-> NoId,
                  repeated |-> FALSE]
    /\ nextUid = 1
    /\ calls = 0

Idle(t) == mutf[t].pc = "none" /\ emitf[t].pc = "none"

\* A thread may make a top-level call: it is in no call, and the run has calls
\* left. The threads are interchangeable, so the first call is thread 1's.
MayCall(t) == Idle(t) /\ calls < MaxOps /\ (calls = 0 => t = 1)

\* ------------------------------------------------------------- addListener
\* Thread t enters addListener(c, callback), the callback of kind k (line 29).
EnterAdd(t, c, k) ==
    /\ mutf' = [mutf EXCEPT ![t] =
                   [pc |-> "add_check", eventType |-> c,
                    callback |-> [kind |-> k, uid |-> nextUid],
                    id |-> 0, tmp |-> 0]]
    /\ nextUid' = nextUid + 1
    /\ calls' = calls + 1
    /\ outcome' = [outcome EXCEPT ![t] = "none"]
    /\ invoked' = [invoked EXCEPT ![t] = << >>]
    /\ emitObs' = [emitObs EXCEPT ![t] = NoObs]
    /\ UNCHANGED <<listeners, lastListenerID, listenersMutex, emitf, owned,
                   history>>

\* A thread calls addListener with any event type and callback.
CallAdd(t) ==
    /\ MayCall(t)
    /\ nextUid <= MaxAdds
    /\ \E c \in EventTypes, k \in CallbackKinds : EnterAdd(t, c, k)

\* (mutant) the empty callback is not rejected: the call goes on to line 36.
AddNoCheck(t) ==
    /\ mutf[t].pc = "add_check"
    /\ mutf[t].callback.kind = "empty"
    /\ mutf' = [mutf EXCEPT ![t].tmp = lastListenerID, ![t].pc = "add_write"]
    /\ UNCHANGED <<listeners, lastListenerID, listenersMutex, emitf, outcome,
                   invoked, emitObs, owned, history, nextUid, calls>>

\* if (!callback) throw std::invalid_argument(...) (lines 31-34): the call ends
\* here with the exception.
AddThrowInvalid(t) ==
    /\ mutf[t].pc = "add_check"
    /\ mutf[t].callback.kind = "empty"
    /\ mutf' = [mutf EXCEPT ![t] = IdleMut]
    /\ outcome' = [outcome EXCEPT ![t] = "InvalidArgument"]
    /\ UNCHANGED <<listeners, lastListenerID, listenersMutex, emitf, invoked,
                   emitObs, owned, history, nextUid, calls>>

\* The callback is not empty. lastListenerID++ (line 36) is a plain
\* read-modify-write of a shared unsigned int with no lock held: the read ...
AddReadCounter(t) ==
    /\ mutf[t].pc = "add_check"
    /\ mutf[t].callback.kind # "empty"
    /\ mutf' = [mutf EXCEPT ![t].tmp = lastListenerID, ![t].pc = "add_write"]
    /\ UNCHANGED <<listeners, lastListenerID, listenersMutex, emitf, outcome,
                   invoked, emitObs, owned, history, nextUid, calls>>

\* ... and the write of the incremented value; the old value, converted to
\* int, is the local listenerID.
AddWriteCounter(t) ==
    /\ mutf[t].pc = "add_write"
    /\ lastListenerID' = (mutf[t].tmp + 1) % IdMod
    /\ mutf' = [mutf EXCEPT ![t].id = ToInt(mutf[t].tmp), ![t].pc = "add_lock"]
    /\ UNCHANGED <<listeners, listenersMutex, emitf, outcome, invoked, emitObs,
                   owned, history, nextUid, calls>>

\* std::lock_guard<std::mutex> lock(listenersMutex) (line 37).
AddLock(t) ==
    /\ mutf[t].pc = "add_lock"
    /\ listenersMutex = NoThread
    /\ listenersMutex' = t
    /\ mutf' = [mutf EXCEPT ![t].pc = "add_emplace"]
    /\ UNCHANGED <<listeners, lastListenerID, emitf, outcome, invoked, emitObs,
                   owned, history, nextUid, calls>>

\* Listener listener = { listenerID, callback }; listeners.emplace(...);
\* return listenerID (lines 38-41): the entry is inserted, the lock_guard
\* releases the mutex, the int is converted back to ListenerID. A top-level
\* caller keeps the id it got.
AddEmplace(t) ==
    /\ mutf[t].pc = "add_emplace"
    /\ listeners' = Emplace(listeners, mutf[t].eventType,
                            [id |-> mutf[t].id, callback |-> mutf[t].callback])
    /\ listenersMutex' = NoThread
    /\ mutf' = [mutf EXCEPT ![t] = IdleMut]
    /\ history' = [history EXCEPT
                      !.inserted = @ \cup
                          {[uid |-> mutf[t].callback.uid, id |-> mutf[t].id,
                            cat |-> mutf[t].eventType,
                            seq |-> Cardinality(@) + 1]},
                      !.lastErase = NoId,
                      !.repeated = FALSE]
    /\ IF emitf[t].pc = "none"
       THEN /\ outcome' = [outcome EXCEPT ![t] = "ok"]
            /\ owned' = [owned EXCEPT ![t] = @ \cup
                            {[uid |-> mutf[t].callback.uid,
                              id |-> ToUnsigned(mutf[t].id),
                              cat |-> mutf[t].eventType]}]
       ELSE UNCHANGED <<outcome, owned>>
    /\ UNCHANGED <<lastListenerID, emitf, invoked, emitObs, nextUid, calls>>

\* ---------------------------------------------------------- removeListener
\* Ids a caller may pass: every id the bounded run can issue, and one more.
RemovableIDs == 0..MaxAdds

\* Thread t enters removeListener(i) (line 47).
EnterRemove(t, i) ==
    /\ mutf' = [mutf EXCEPT ![t] =
                   [pc |-> "rm_lock", eventType |-> 0,
                    callback |-> NoCallback, id |-> i, tmp |-> 0]]
    /\ calls' = calls + 1
    /\ outcome' = [outcome EXCEPT ![t] = "none"]
    /\ invoked' = [invoked EXCEPT ![t] = << >>]
    /\ emitObs' = [emitObs EXCEPT ![t] = NoObs]
    /\ UNCHANGED <<listeners, lastListenerID, listenersMutex, emitf, owned,
                   history, nextUid>>

\* A thread calls removeListener with any id.
CallRemove(t) == MayCall(t) /\ \E i \in RemovableIDs : EnterRemove(t, i)

\* (mutant) removeListener goes on to its loop without taking the mutex.
RemoveNoLock(t) ==
    /\ mutf[t].pc = "rm_lock"
    /\ mutf' = [mutf EXCEPT ![t].pc = "rm_scan"]
    /\ UNCHANGED <<listeners, lastListenerID, listenersMutex, emitf, outcome,
                   invoked, emitObs, owned, history, nextUid, calls>>

\* std::lock_guard<std::mutex> lock(listenersMutex) (line 49).
RemoveLock(t) ==
    /\ mutf[t].pc = "rm_lock"
    /\ listenersMutex = NoThread
    /\ listenersMutex' = t
    /\ mutf' = [mutf EXCEPT ![t].pc = "rm_scan"]
    /\ UNCHANGED <<listeners, lastListenerID, emitf, outcome, invoked, emitObs,
                   owned, history, nextUid, calls>>

\* The for loop over the whole map (lines 50-60), run with the mutex held,
\* and the end of removeListener (line 61): the lock_guard releases the mutex.
RemoveScan(t) ==
    /\ mutf[t].pc = "rm_scan"
    /\ listeners' = EraseMatching(listeners, mutf[t].id)
    /\ listenersMutex' = NoThread
    /\ mutf' = [mutf EXCEPT ![t] = IdleMut]
    /\ history' = [history EXCEPT
                      !.lastErase = mutf[t].id,
                      !.repeated = (history.lastErase = mutf[t].id),
                      !.gone = @ \cup
                          {r.uid : r \in {x \in history.inserted :
                                             ToUnsigned(x.id) = mutf[t].id}}]
    /\ IF emitf[t].pc = "none"
       THEN /\ outcome' = [outcome EXCEPT ![t] = "ok"]
            /\ owned' = [owned EXCEPT ![t] = {o \in @ : o.id # mutf[t].id}]
       ELSE UNCHANGED <<outcome, owned>>
    /\ UNCHANGED <<lastListenerID, emitf, invoked, emitObs, nextUid, calls>>

\* --------------------------------------------------------------------- emit
\* uids of the callables the map holds for event type c.
RegisteredFor(c) ==
    {listeners[i].second.callback.uid :
        i \in {j \in 1..Len(listeners) : listeners[j].first = c}}

\* Thread t enters emit(c, event) (line 70).
EnterEmit(t, c) ==
    /\ emitf' = [emitf EXCEPT ![t] =
                     [pc |-> "em_lock", eventType |-> c,
                      matchingListeners |-> << >>, idx |-> 0]]
    /\ calls' = calls + 1
    /\ outcome' = [outcome EXCEPT ![t] = "none"]
    /\ invoked' = [invoked EXCEPT ![t] = << >>]
    /\ emitObs' = [emitObs EXCEPT
                      ![t] = [NoObs EXCEPT !.goneAtCall = history.gone]]
    /\ UNCHANGED <<listeners, lastListenerID, listenersMutex, mutf, owned,
                   history, nextUid>>

\* The owning object calls emit on a thread, with any event type.
CallEmit(t) == MayCall(t) /\ \E c \in EventTypes : EnterEmit(t, c)

\* std::lock_guard<std::mutex> lock(listenersMutex) (line 76).
EmitLock(t) ==
    /\ emitf[t].pc = "em_lock"
    /\ listenersMutex = NoThread
    /\ listenersMutex' = t
    /\ emitf' = [emitf EXCEPT ![t].pc = "em_copy"]
    /\ UNCHANGED <<listeners, lastListenerID, mutf, outcome, invoked, emitObs,
                   owned, history, nextUid, calls>>

\* (mutant) the lock_guard is not scoped to the copy: the mutex stays held
\* while the callbacks run.
EmitCopyKeepLock(t) ==
    /\ emitf[t].pc = "em_copy"
    /\ emitf' = [emitf EXCEPT
                    ![t].matchingListeners =
                        EqualRange(listeners, emitf[t].eventType),
                    ![t].pc = "em_loop",
                    ![t].idx = 1]
    /\ emitObs' = [emitObs EXCEPT
                      ![t].cat = emitf[t].eventType,
                      ![t].regAtSnap = RegisteredFor(emitf[t].eventType),
                      ![t].snapped = TRUE]
    /\ UNCHANGED <<listeners, lastListenerID, listenersMutex, mutf, outcome,
                   invoked, owned, history, nextUid, calls>>

\* equal_range and the copy into matchingListeners (lines 78-79), then the
\* end of the block (line 80): the lock_guard releases the mutex; the loop
\* starts at the first copied listener.
EmitCopy(t) ==
    /\ emitf[t].pc = "em_copy"
    /\ emitf' = [emitf EXCEPT
                    ![t].matchingListeners =
                        EqualRange(listeners, emitf[t].eventType),
                    ![t].pc = "em_loop",
                    ![t].idx = 1]
    /\ listenersMutex' = NoThread
    /\ emitObs' = [emitObs EXCEPT
                      ![t].cat = emitf[t].eventType,
                      ![t].regAtSnap = RegisteredFor(emitf[t].eventType),
                      ![t].snapped = TRUE]
    /\ UNCHANGED <<listeners, lastListenerID, mutf, outcome, invoked, owned,
                   history, nextUid, calls>>

\* The listener the loop of lines 83-86 is at.
AtListener(t) ==
    /\ emitf[t].pc = "em_loop"
    /\ emitf[t].idx <= Len(emitf[t].matchingListeners)
Current(t) == emitf[t].matchingListeners[emitf[t].idx].second

\* emitObs once thread t has invoked the listener its loop is at.
Observed(t) ==
    [emitObs EXCEPT
        ![t].stale = @ \/ (Current(t).callback.uid \in history.gone)]

\* (mutant) the loop looks the listener up in the map again and skips it when
\* it is no longer there.
InvokeIfStillRegistered(t) ==
    /\ AtListener(t)
    /\ invoked' =
          IF Current(t).callback.uid \in RegisteredFor(emitf[t].eventType)
          THEN [invoked EXCEPT ![t] = Append(@, Current(t).callback.uid)]
          ELSE invoked
    /\ emitf' = [emitf EXCEPT ![t].idx = @ + 1]
    /\ UNCHANGED <<listeners, lastListenerID, listenersMutex, mutf, outcome,
                   emitObs, owned, history, nextUid, calls>>

\* listener.second.callback(eventType, event) (line 85), and the callable
\* returns without touching the emitter.
InvokeReturns(t) ==
    /\ AtListener(t)
    /\ invoked' = [invoked EXCEPT ![t] = Append(@, Current(t).callback.uid)]
    /\ emitf' = [emitf EXCEPT ![t].idx = @ + 1]
    /\ emitObs' = Observed(t)
    /\ UNCHANGED <<listeners, lastListenerID, listenersMutex, mutf, outcome,
                   owned, history, nextUid, calls>>

\* (mutant) the exception is caught inside the loop, which goes on.
InvokeThrowsCaught(t) ==
    /\ AtListener(t)
    /\ invoked' = [invoked EXCEPT ![t] = Append(@, Current(t).callback.uid)]
    /\ emitf' = [emitf EXCEPT ![t].idx = @ + 1]
    /\ emitObs' = [Observed(t) EXCEPT ![t].threw = TRUE]
    /\ UNCHANGED <<listeners, lastListenerID, listenersMutex, mutf, outcome,
                   owned, history, nextUid, calls>>

\* The callable throws: nothing in emit catches it, so the loop and emit end
\* and the exception reaches emit's caller.
InvokeThrows(t) ==
    /\ AtListener(t)
    /\ invoked' = [invoked EXCEPT ![t] = Append(@, Current(t).callback.uid)]
    /\ emitf' = [emitf EXCEPT ![t] = IdleEmit]
    /\ emitObs' = [Observed(t) EXCEPT ![t].threw = TRUE]
    /\ outcome' = [outcome EXCEPT ![t] = "raised"]
    /\ UNCHANGED <<listeners, lastListenerID, listenersMutex, mutf, owned,
                   history, nextUid, calls>>

\* The callable calls addListener(eventType, f) on the same emitter.
InvokeCallsAdd(t) ==
    /\ AtListener(t)
    /\ nextUid <= MaxAdds
    /\ invoked' = [invoked EXCEPT ![t] = Append(@, Current(t).callback.uid)]
    /\ emitf' = [emitf EXCEPT ![t].pc = "in_add"]
    /\ mutf' = [mutf EXCEPT ![t] =
                   [pc |-> "add_check", eventType |-> emitf[t].eventType,
                    callback |-> [kind |-> "callable", uid |-> nextUid],
                    id |-> 0, tmp |-> 0]]
    /\ nextUid' = nextUid + 1
    /\ emitObs' = Observed(t)
    /\ UNCHANGED <<listeners, lastListenerID, listenersMutex, outcome, owned,
                   history, calls>>

\* The callable calls removeListener(id) on the same emitter, with its own
\* listener's id or with another one.
InvokeCallsRemove(t) ==
    /\ AtListener(t)
    /\ invoked' = [invoked EXCEPT ![t] = Append(@, Current(t).callback.uid)]
    /\ emitf' = [emitf EXCEPT ![t].pc = "in_remove"]
    /\ \E i \in RemovableIDs :
          mutf' = [mutf EXCEPT ![t] =
                      [pc |-> "rm_lock", eventType |-> 0,
                       callback |-> NoCallback, id |-> i, tmp |-> 0]]
    /\ emitObs' = Observed(t)
    /\ UNCHANGED <<listeners, lastListenerID, listenersMutex, outcome, owned,
                   history, nextUid, calls>>

\* Thread t is inside a callback that emit invoked.
InCallback(t) == emitf[t].pc \in {"in_add", "in_remove"}

\* The call the callable made has returned, and so does the callable: the
\* loop goes on to the next copied listener.
CallbackReturn(t) ==
    /\ InCallback(t)
    /\ mutf[t].pc = "none"
    /\ emitf' = [emitf EXCEPT ![t].pc = "em_loop", ![t].idx = @ + 1]
    /\ UNCHANGED <<listeners, lastListenerID, listenersMutex, mutf, outcome,
                   invoked, emitObs, owned, history, nextUid, calls>>

\* The call the callable made has returned, and then the callable throws:
\* the loop and emit end with the exception.
CallbackThrows(t) ==
    /\ InCallback(t)
    /\ mutf[t].pc = "none"
    /\ emitf' = [emitf EXCEPT ![t] = IdleEmit]
    /\ emitObs' = [emitObs EXCEPT ![t].threw = TRUE]
    /\ outcome' = [outcome EXCEPT ![t] = "raised"]
    /\ UNCHANGED <<listeners, lastListenerID, listenersMutex, mutf, invoked,
                   owned, history, nextUid, calls>>

\* (mutant) emit returns from inside its loop, wherever the loop is.
EmitReturnEarly(t) ==
    /\ emitf[t].pc = "em_loop"
    /\ emitf' = [emitf EXCEPT ![t] = IdleEmit]
    /\ outcome' = [outcome EXCEPT ![t] = "ok"]
    /\ UNCHANGED <<listeners, lastListenerID, listenersMutex, mutf, invoked,
                   emitObs, owned, history, nextUid, calls>>

\* The loop is past the last copied listener: emit returns (line 87).
EmitReturn(t) ==
    /\ emitf[t].pc = "em_loop"
    /\ emitf[t].idx > Len(emitf[t].matchingListeners)
    /\ emitf' = [emitf EXCEPT ![t] = IdleEmit]
    /\ outcome' = [outcome EXCEPT ![t] = "ok"]
    /\ UNCHANGED <<listeners, lastListenerID, listenersMutex, mutf, invoked,
                   emitObs, owned, history, nextUid, calls>>

\* ------------------------------------------------------------ specification
\* A step of thread t inside a call it has made.
Run(t) ==
    \/ AddThrowInvalid(t)
    \/ AddReadCounter(t)
    \/ AddWriteCounter(t)
    \/ AddLock(t)
    \/ AddEmplace(t)
    \/ RemoveLock(t)
    \/ RemoveScan(t)
    \/ EmitLock(t)
    \/ EmitCopy(t)
    \/ InvokeReturns(t)
    \/ InvokeThrows(t)
    \/ InvokeCallsAdd(t)
    \/ InvokeCallsRemove(t)
    \/ CallbackReturn(t)
    \/ CallbackThrows(t)
    \/ EmitReturn(t)

Next ==
    \E t \in Threads :
        \/ CallAdd(t)
        \/ CallRemove(t)
        \/ CallEmit(t)
        \/ Run(t)

Spec == Init /\ [][Next]_vars

\* Every thread that can take a step inside its call eventually takes one
\* (the scheduler runs every runnable thread); making a call is never forced.
FairSpec == Spec /\ \A t \in Threads : WF_vars(Run(t))

\* ------------------------------------------------- the registration stress run
\* Threads register listeners (whose callbacks only return) and remove
\* listeners they registered themselves, concurrently; once every such call
\* has returned, the threads emit concurrently, each once, and nothing is
\* registered or removed any more.
EmitPhase == \E t \in Threads : emitf[t].pc # "none" \/ emitObs[t].snapped

RegisterListener(t) ==
    /\ Idle(t)
    /\ ~EmitPhase
    /\ nextUid <= MaxAdds
    /\ \E c \in EventTypes : EnterAdd(t, c, "callable")

RemoveOwnListener(t) ==
    /\ Idle(t)
    /\ ~EmitPhase
    /\ \E o \in owned[t] : EnterRemove(t, o.id)

EmitOnce(t) ==
    /\ Idle(t)
    /\ ~emitObs[t].snapped
    /\ \A x \in Threads : mutf[x].pc = "none"
    /\ \E c \in EventTypes : EnterEmit(t, c)

StressNext ==
    \E t \in Threads :
        \/ RegisterListener(t)
        \/ RemoveOwnListener(t)
        \/ EmitOnce(t)
        \/ AddReadCounter(t)
        \/ AddWriteCounter(t)
        \/ AddLock(t)
        \/ AddEmplace(t)
        \/ RemoveLock(t)
        \/ RemoveScan(t)
        \/ EmitLock(t)
        \/ EmitCopy(t)
        \/ InvokeReturns(t)
        \/ EmitReturn(t)

StressSpec == Init /\ [][StressNext]_vars

\* ------------------------------------------------- the long sequential run
\* Calls are made one after the other, never two at a time: addListener, as
\* many times as it takes the ListenerID counter to come round once, and
\* removeListener with an id that the calling thread got and has not removed
\* yet. The map holds at most MaxAdds listeners at a time.
AllIdle == \A x \in Threads : Idle(x)

NextRegistration(t) ==
    /\ AllIdle
    /\ nextUid <= IdMod + 1
    /\ Len(listeners) < MaxAdds
    /\ \E c \in EventTypes : EnterAdd(t, c, "callable")

NextRemoval(t) ==
    /\ AllIdle
    /\ \E o \in owned[t] : EnterRemove(t, o.id)

SequentialNext ==
    \E t \in Threads :
        \/ NextRegistration(t)
        \/ NextRemoval(t)
        \/ AddReadCounter(t)
        \/ AddWriteCounter(t)
        \/ AddLock(t)
        \/ AddEmplace(t)
        \/ RemoveLock(t)
        \/ RemoveScan(t)

SequentialSpec == Init /\ [][SequentialNext]_vars

\* ==================================================================== claims
\* The id each addListener call returned, by the callable it registered.
ReturnedId(r) == ToUnsigned(r.id)

\* C1: no two addListener calls on the same emitter return the same
\* identifier, whatever the interleaving of the calls' steps.
C1_ReturnedIdsDistinct ==
    \A r1, r2 \in history.inserted :
        r1.uid # r2.uid => ReturnedId(r1) # ReturnedId(r2)

\* C10: every read and write of the id counter happens while the calling
\* thread holds the mutex: a thread that is between the read and the write of
\* lastListenerID++ holds listenersMutex.
C10_CounterAccessUnderLock ==
    \A t \in Threads : mutf[t].pc = "add_write" => listenersMutex = t

\* An emit of thread t has ended (returned, or was left by an exception), and
\* t has made no call since.
EmitEnded(t) == emitObs[t].snapped /\ emitf[t].pc = "none"
Range(q) == {q[i] : i \in 1..Len(q)}
NoDuplicates(q) == \A i, j \in 1..Len(q) : i # j => q[i] # q[j]

\* C2 as stated: every emit(c, e) invokes exactly the callbacks registered for
\* c when it was called (when it copied them), each exactly once.
C2_EveryEmitInvokesAllRegistered ==
    \A t \in Threads :
        EmitEnded(t) =>
            /\ Range(invoked[t]) = emitObs[t].regAtSnap
            /\ NoDuplicates(invoked[t])

\* C2 (amended): an emit(c, e) that returns has invoked exactly the callbacks
\* registered for c when it copied them, each exactly once; an emit, ended by a
\* callback's exception or not, invokes only callbacks registered for c, each
\* at most once.
C2_EmitInvokesRegistered ==
    \A t \in Threads :
        emitObs[t].snapped =>
            /\ NoDuplicates(invoked[t])
            /\ Range(invoked[t]) \subseteq emitObs[t].regAtSnap
            /\ \A u \in Range(invoked[t]) :
                  \E r \in history.inserted :
                      r.uid = u /\ r.cat = emitObs[t].cat
            /\ (EmitEnded(t) /\ outcome[t] = "ok"
                   => Range(invoked[t]) = emitObs[t].regAtSnap)

\* C2 witness: an emit returned after invoking a callback while the map also
\* held a listener of another event type.
C2_Witness ==
    \E t \in Threads :
        /\ EmitEnded(t)
        /\ outcome[t] = "ok"
        /\ invoked[t] # << >>
        /\ \E i \in 1..Len(listeners) : listeners[i].first # emitObs[t].cat

\* C3: after removeListener(id) has returned, no emit called afterwards
\* invokes a callback that was registered under id.
C3_RemovedNeverInvoked ==
    \A t \in Threads :
        \A u \in Range(invoked[t]) : u \notin emitObs[t].goneAtCall

\* C3 witness: an emit for an event type ended, called after a listener of
\* that event type was removed.
C3_Witness ==
    \E t \in Threads :
        /\ EmitEnded(t)
        /\ \E r \in history.inserted :
              r.uid \in emitObs[t].goneAtCall /\ r.cat = emitObs[t].cat

\* Ids taken from the counter so far, by calls that returned or are in flight.
IssuedIds ==
    {ReturnedId(r) : r \in history.inserted}
        \cup {ToUnsigned(mutf[t].id) :
                 t \in {x \in Threads : mutf[x].pc \in {"add_lock", "add_emplace"}}}

\* The step is thread t running the loop of removeListener(id).
RemoveStep(t) == mutf[t].pc = "rm_scan" /\ mutf'[t].pc = "none"

C5_EmptyCallbackRejected ==
    [][/\ \A t \in Threads :
             (/\ mutf[t].pc = "add_check"
              /\ mutf[t].callback.kind = "empty"
              /\ mutf'[t] # mutf[t])
             => /\ outcome'[t] = "InvalidArgument"
                /\ mutf'[t].pc = "none"
                /\ listeners' = listeners
                /\ lastListenerID' = lastListenerID
                /\ listenersMutex' = listenersMutex
       /\ \A i \in 1..Len(listeners') :
             listeners'[i].second.callback.kind # "empty"]_vars

\* C5 witness: an addListener call was rejected while the map held a listener.
C5_Witness ==
    \E t \in Threads : outcome[t] = "InvalidArgument" /\ listeners # << >>

\* C7: a callback that calls addListener or removeListener on the same
\* emitter from inside emit does not deadlock: the call it makes returns, and
\* the enclosing emit ends.
C7_NestedCallTerminates ==
    \A t \in Threads :
        /\ InCallback(t) ~> (InCallback(t) /\ mutf[t].pc = "none")
        /\ InCallback(t) ~> (emitf[t].pc = "none")

\* C7 witness: a callback's removeListener call for its own id has returned
\* inside emit, and the listener is out of the map.
C7_Witness ==
    \E t \in Threads :
        /\ emitf[t].pc = "in_remove"
        /\ mutf[t].pc = "none"
        /\ Current(t).callback.uid \notin RegisteredFor(emitf[t].eventType)

\* C9: when a callback throws, emit ends there with the exception reaching
\* its caller: no further callback of that emit is invoked, the thread does
\* not hold the mutex, and the step leaves mutex, map and counter as they were.
C9_RaiseAbortsEmit ==
    [][\A t \in Threads :
          /\ emitObs'[t].threw
             => /\ emitf'[t].pc = "none"
                /\ outcome'[t] = "raised"
                /\ listenersMutex' # t
          /\ (~emitObs[t].threw /\ emitObs'[t].threw)
             => /\ \/ /\ AtListener(t)
                      /\ invoked'[t] =
                            Append(invoked[t], Current(t).callback.uid)
                   \/ /\ InCallback(t)
                      /\ invoked'[t] = invoked[t]
                /\ listenersMutex' = listenersMutex
                /\ listeners' = listeners
                /\ lastListenerID' = lastListenerID
          /\ (emitObs[t].threw /\ emitObs'[t].threw)
             => invoked'[t] = invoked[t]]_vars

\* C9 witness: an emit ended with a callback's exception before it had
\* invoked every listener it copied.
C9_Witness ==
    \E t \in Threads :
        /\ EmitEnded(t)
        /\ outcome[t] = "raised"
        /\ emitObs[t].threw
        /\ Len(invoked[t]) < Cardinality(emitObs[t].regAtSnap)

\* uids of the listeners emit copied, in the order of the copy.
SnapshotUids(t) ==
    [i \in 1..Len(emitf[t].matchingListeners) |->
        emitf[t].matchingListeners[i].second.callback.uid]

\* C8 as stated: whatever is added or removed after an emit's snapshot, the
\* emit invokes no listener added after it, and every listener it captured and
\* that was removed afterwards is still invoked exactly once by it.
C8_RemovedAfterSnapshotStillInvoked ==
    \A t \in Threads :
        EmitEnded(t) =>
            /\ Range(invoked[t]) \subseteq emitObs[t].regAtSnap
            /\ NoDuplicates(invoked[t])
            /\ \A u \in emitObs[t].regAtSnap :
                  u \notin RegisteredFor(emitObs[t].cat)
                      => u \in Range(invoked[t])

\* C8 (amended): what an emit invokes is fixed by its snapshot: while the loop
\* runs, the copy is the listeners the map held for the event type at the
\* snapshot, whatever has been added or removed since, and the callbacks
\* invoked so far are the first ones of the copy in order; an emit that no
\* callback's exception ended has invoked every captured listener exactly
\* once, removed in the meantime or not, and no listener added after the
\* snapshot.
C8_SnapshotFixed ==
    \A t \in Threads :
        /\ emitf[t].pc \in {"em_loop", "in_add", "in_remove"}
           => /\ Range(SnapshotUids(t)) = emitObs[t].regAtSnap
              /\ Len(invoked[t]) \in {emitf[t].idx - 1, emitf[t].idx}
              /\ invoked[t] = SubSeq(SnapshotUids(t), 1, Len(invoked[t]))
        /\ (EmitEnded(t) /\ ~emitObs[t].threw)
           => /\ Range(invoked[t]) = emitObs[t].regAtSnap
              /\ Len(invoked[t]) = Cardinality(emitObs[t].regAtSnap)

\* C8 witness: an emit returned, having invoked a captured listener after the
\* removeListener call for that listener had returned.
C8_Witness ==
    \E t \in Threads :
        /\ EmitEnded(t)
        /\ outcome[t] = "ok"
        /\ emitObs[t].stale

\* The listeners registered for event type c by addListener calls that have
\* returned, and not removed by the thread that registered them.
StillRegistered(c) ==
    {o \in UNION {owned[t] : t \in Threads} : o.cat = c}

\* C6: in the registration stress run, every emit for an event type delivers
\* exactly one invocation to each listener still registered for it: no
\* registration is lost, none is delivered twice.
C6_DeliversStillRegistered ==
    \A t \in Threads :
        EmitEnded(t) =>
            /\ Len(invoked[t]) = Cardinality(StillRegistered(emitObs[t].cat))
            /\ Range(invoked[t]) =
                  {o.uid : o \in StillRegistered(emitObs[t].cat)}

\* C11 as stated: in no state does a thread hold the mutex while a callback
\* is executing on that thread.
C11_NoLockWhileCallbackRuns ==
    \A t \in Threads : InCallback(t) => listenersMutex # t

\* C11 (amended): emit has released the mutex before its first callback
\* invocation and does not take it again: while the loop of emit runs or a
\* callback is executing, the thread holds the mutex only inside an
\* addListener or removeListener call that the callback itself made.
C11_EmitLockReleasedBeforeCallbacks ==
    \A t \in Threads :
        (emitf[t].pc \in {"em_loop", "in_add", "in_remove"}
            /\ listenersMutex = t)
        => (InCallback(t) /\ mutf[t].pc \in {"add_emplace", "rm_scan"})

\* C11 witness: a callback is executing on a thread while the other thread
\* holds the mutex.
C11_Witness ==
    \E t \in Threads :
        /\ InCallback(t)
        /\ listenersMutex \notin {t, NoThread}

\* A callback invoked by thread t's emit is executing and is not inside the
\* critical section of a call it made: it may stay there for as long as it
\* likes (a slow or blocking callback).
CallbackBlocked(t) ==
    InCallback(t) /\ mutf[t].pc \notin {"add_emplace", "rm_scan"}

\* C12 as stated: while a callback invoked by one emit has not returned, no
\* other thread's emit for the same event type invokes a callback or returns.
C12_BlockedCallbackBlocksEmitters ==
    [][\A t, u \in Threads :
          (/\ t # u
           /\ InCallback(t)
           /\ emitf'[t].pc \in {"in_add", "in_remove"}
           /\ emitf[u].pc # "none"
           /\ emitf[u].eventType = emitf[t].eventType)
          => /\ invoked'[u] = invoked[u]
             /\ emitf'[u].pc # "none"]_vars

\* C12 (amended): a callback that has not returned holds up its own emit only:
\* that emit invokes nothing more and does not end until the callback returns
\* or throws, while another thread's emit always has a step it can take (the
\* mutex is not held on behalf of the waiting callback).
C12_BlockedCallbackHoldsUpOwnEmitOnly ==
    /\ [](\A t, u \in Threads :
             (t # u /\ CallbackBlocked(t) /\ emitf[u].pc # "none")
                 => ENABLED Run(u))
    /\ [][\A t \in Threads :
             (InCallback(t) /\ emitf'[t].pc \in {"in_add", "in_remove"})
                 => /\ invoked'[t] = invoked[t]
                    /\ emitf'[t] = emitf[t]
                    /\ outcome'[t] = outcome[t]]_vars

\* C12 witness: a callback of thread t's emit registered a listener and has
\* not returned, and meanwhile the other thread's emit for the same event
\* type took its snapshot, invoked that listener too, and returned.
C12_Witness ==
    \E t, u \in Threads :
        /\ t # u
        /\ emitf[t].pc = "in_add"
        /\ mutf[t].pc = "none"
        /\ EmitEnded(u)
        /\ outcome[u] = "ok"
        /\ emitObs[u].cat = emitf[t].eventType
        /\ Len(invoked[u]) = 2

\* Thread t is inside a critical section on the map.
InCritical(t) ==
    mutf[t].pc \in {"add_emplace", "rm_scan"} \/ emitf[t].pc = "em_copy"

\* C13: an emit racing with another thread's addListener or removeListener
\* copies its listeners from a map that is between two whole mutations: while
\* the emit is at its copy it holds the mutex and no other thread is inside
\* its insertion or its removal loop, no step changes the map meanwhile, the
\* copy is the equal range of that map, and every copied entry is one that
\* an addListener call inserted whole (id, callback and event type).
C13_SnapshotSeesWholeMutations ==
    /\ [](\A t \in Threads :
             InCritical(t)
                 => /\ listenersMutex = t
                    /\ \A u \in Threads \ {t} : ~InCritical(u))
    /\ [][\A t \in Threads :
             emitf[t].pc = "em_copy"
                 => /\ listeners' = listeners
                    /\ (emitf'[t].pc # "em_copy"
                           => emitf'[t].matchingListeners =
                                 EqualRange(listeners, emitf[t].eventType))]_vars
    /\ [](\A t \in Threads :
             \A i \in 1..Len(emitf[t].matchingListeners) :
                 \E r \in history.inserted :
                     /\ r.uid = emitf[t].matchingListeners[i].second.callback.uid
                     /\ r.id = emitf[t].matchingListeners[i].second.id
                     /\ r.cat = emitf[t].matchingListeners[i].first
                     /\ r.cat = emitf[t].eventType)

\* C13 witness: an emit is at its copy, with a listener to copy, while the
\* other thread's removeListener or addListener waits for the mutex.
C13_Witness ==
    \E t, u \in Threads :
        /\ t # u
        /\ emitf[t].pc = "em_copy"
        /\ RegisteredFor(emitf[t].eventType) # {}
        /\ mutf[u].pc \in {"add_lock", "rm_lock"}

\* C14: the ids addListener returns are strictly increasing in the order of
\* the calls, however many calls are made (the counter being a fixed-width
\* unsigned integer): an id returned later is greater than every id returned
\* before, and so is never one that was issued before.
C14_IdsStrictlyIncreasing ==
    \A r1, r2 \in history.inserted :
        r1.seq < r2.seq => ReturnedId(r1) < ReturnedId(r2)

\* C15: one removeListener(id) call removes at most one entry from the map,
\* whatever calls came before it, concurrent addListener calls included.
C15_RemovesAtMostOneEntry ==
    [][\A t \in Threads :
          RemoveStep(t) => Len(listeners) - Len(listeners') <= 1]_vars

\* C16: the entries the map holds, over all event types, carry pairwise
\* distinct ids.
C16_MapIdsDistinct ==
    \A i, j \in 1..Len(listeners) :
        i # j => listeners[i].second.id # listeners[j].second.id

\* Ids that were returned by addListener and then passed to a removeListener
\* call that has returned.
RemovedIds ==
    {ReturnedId(r) : r \in {x \in history.inserted : x.uid \in history.gone}}

\* The step is thread t inserting its entry and returning from addListener.
AddStep(t) == mutf[t].pc = "add_emplace" /\ mutf'[t].pc = "none"

\* C18: removeListener(id) changes nothing but the entries whose id is id:
\* every other entry stays in the map with its event type and callback, and
\* the counter is unchanged; and an addListener that returns after an id was
\* removed never returns that id.
C18_RemoveTouchesOnlyItsId ==
    [][\A t \in Threads :
          /\ RemoveStep(t)
             => /\ lastListenerID' = lastListenerID
                /\ \A i \in 1..Len(listeners) :
                      ToUnsigned(listeners[i].second.id) # mutf[t].id
                          => \E j \in 1..Len(listeners') :
                                 listeners'[j] = listeners[i]
          /\ AddStep(t) => ToUnsigned(mutf[t].id) \notin RemovedIds]_vars

\* C17: dispatch is synchronous. A callback is invoked only by a step of the
\* emitting thread's loop, between the call of emit and its end, so none runs
\* after emit has returned; and emit returns only from its loop, with every
\* copied callback invoked and returned and no call of a callback pending.
C17_DispatchSynchronous ==
    [][\A t \in Threads :
          /\ invoked'[t] # invoked[t]
             => \/ /\ Idle(t)
                   /\ invoked'[t] = << >>
                \/ /\ AtListener(t)
                   /\ invoked'[t] = Append(invoked[t], Current(t).callback.uid)
          /\ (emitf[t].pc # "none" /\ emitf'[t].pc = "none"
                 /\ outcome'[t] = "ok")
             => /\ emitf[t].pc = "em_loop"
                /\ mutf[t].pc = "none"
                /\ invoked[t] = SnapshotUids(t)
                /\ invoked'[t] = invoked[t]]_vars

\* C17 witness: an emit has returned after invoking two callbacks.
C17_Witness ==
    \E t \in Threads :
        /\ EmitEnded(t)
        /\ outcome[t] = "ok"
        /\ Len(invoked[t]) >= 2

\* The position of callable u's entry among all insertions into the map.
SeqOf(u) == (CHOOSE r \in history.inserted : r.uid = u).seq

\* q lists callables in the order in which their entries were inserted.
InInsertionOrder(q) ==
    \A i, j \in 1..Len(q) : i < j => SeqOf(q[i]) < SeqOf(q[j])

\* C19: within one emission the listeners are invoked in the order in which
\* they were inserted: the copy lists them in insertion order, and so does the
\* sequence of invocations.
C19_InvokedInRegistrationOrder ==
    \A t \in Threads :
        /\ InInsertionOrder(SnapshotUids(t))
        /\ emitObs[t].snapped => InInsertionOrder(invoked[t])

\* C19 witness: an emit invoked two listeners, the first of which was handed
\* to addListener after the second (and inserted before it).
C19_Witness ==
    \E t \in Threads :
        /\ Len(invoked[t]) = 2
        /\ invoked[t][1] > invoked[t][2]

====
